---------------------------- MODULE Spec2Model ----------------------------
(***************************************************************************)
(* Weather-API (src/main.go): a cache-aside temperature lookup.            *)
(*                                                                         *)
(* weatherHandler reads the cache (Redis) under the queried location; on   *)
(* redis.Nil it calls the Visual Crossing API, and APIResponse.Handle      *)
(* writes the formatted temperature under every alias of the response      *)
(* (address, resolvedAddress, stations) with a one-hour expiry.            *)
(*                                                                         *)
(* net/http runs every request in its own goroutine, so the handlers       *)
(* interleave at their I/O calls: the cache get, the provider call and     *)
(* each cache set.  One action models one handler from one I/O call up to  *)
(* the next (or up to its return).                                         *)
(***************************************************************************)
EXTENDS Integers, Sequences, FiniteSets, TLC

VARIABLES
    store,      \* Redis: key -> entry [val, ttl] or NoEntry
    pc,         \* per request: "idle", "api", "set", "done"
    frame,      \* per request: the locals of weatherHandler and Handle
    w,          \* per request: the http.ResponseWriter [status, body]
    calls,      \* per request: the calls it made on Redis and on the provider
    upstream    \* per request: what the exchange with the provider did

vars == <<store, pc, frame, w, calls, upstream>>

---------------------------------------------------------------------------
(* Bounds of the model *)

\* Requests that may be in flight at the same time.
Reqs == {"r1", "r2"}

\* Longest currentConditions.stations the provider returns.
MaxStations == 1

\* Clock ticks per hour: the resolution at which expiry is observed.
TicksPerHour == 2

\* Keys: what a client queries and the provider reports as addresses.
Keys == {"A", "B"}

\* Station identifiers; "B" is also an address, so aliases can collide.
StationIds == {"B"}

\* Values of the "location" query parameter ("" is absent or empty).
Queries == Keys \cup {""}

---------------------------------------------------------------------------
(* float32 and strconv.FormatFloat(float64(f), 'f', -1, 32) *)

\* Bits of a float32 significand (the bitSize 32 of FormatFloat).
Float32MantBits == 24

\* A float32 is [neg, mant, shift]: (-1)^neg * mant / 2^shift, with
\* mant < 2^24.  The arithmetic below stays within 32-bit integers for
\* magnitudes from 2^-6 up to 2^24 with few decimals, which covers the
\* temperatures used here.
F7_5 == [neg |-> FALSE, mant |-> 15, shift |-> 1]
F12 == [neg |-> FALSE, mant |-> 12, shift |-> 0]
F0 == [neg |-> FALSE, mant |-> 0, shift |-> 0]

\* currentConditions.temp values the provider returns.
Temps == {F7_5, F12}

RECURSIVE Pow(_, _)
Pow(b, n) == IF n = 0 THEN 1 ELSE b * Pow(b, n - 1)

RECURSIVE BitLen(_)
BitLen(m) == IF m = 0 THEN 0 ELSE 1 + BitLen(m \div 2)

DigitChar == <<"0", "1", "2", "3", "4", "5", "6", "7", "8", "9">>

RECURSIVE IntStr(_)
IntStr(n) == IF n < 10 THEN DigitChar[n + 1]
             ELSE IntStr(n \div 10) \o DigitChar[(n % 10) + 1]

\* n as exactly k decimal digits (leading zeros kept).
RECURSIVE FracStr(_, _)
FracStr(n, k) == IF k = 0 THEN ""
                 ELSE FracStr(n \div 10, k - 1) \o DigitChar[(n % 10) + 1]

\* The integer nearest to f * 10^k (magnitude).
Nearest(f, k) ==
    (2 * f.mant * Pow(10, k) + Pow(2, f.shift)) \div (2 * Pow(2, f.shift))

\* Whether the decimal Nearest(f, k) / 10^k reads back as the float32 f: it
\* lies within half a unit in the last place of f (a quarter below a power of
\* two; the ends count when the 24-bit significand is even).
RoundTrips(f, k) ==
    LET n == Nearest(f, k)
        lhs == n * Pow(2, f.shift)
        rhs == f.mant * Pow(10, k)
        diff == IF lhs < rhs THEN rhs - lhs ELSE lhs - rhs
        e == BitLen(f.mant) - 1 - f.shift
        isPow2 == f.mant = Pow(2, BitLen(f.mant) - 1)
        half == Pow(2, Float32MantBits - e
                        + (IF lhs < rhs /\ isPow2 THEN 1 ELSE 0))
        scale == Pow(2, f.shift) * Pow(10, k)
        evenMant == BitLen(f.mant) < Float32MantBits \/ f.mant % 2 = 0
    IN  \/ diff = 0
        \/ IF evenMant THEN diff <= scale \div half
                       ELSE diff <= (scale - 1) \div half

\* The least number of decimals that reads back as f.
RECURSIVE ShortestDecimals(_, _)
ShortestDecimals(f, k) ==
    IF RoundTrips(f, k) THEN k ELSE ShortestDecimals(f, k + 1)

FormatFloat(f) ==
    LET k == IF f.mant = 0 THEN 0 ELSE ShortestDecimals(f, 0)
        n == Nearest(f, k)
    IN  (IF f.neg THEN "-" ELSE "")
        \o IntStr(n \div Pow(10, k))
        \o (IF k = 0 THEN "" ELSE "." \o FracStr(n % Pow(10, k), k))

\* convertFloat32ToString with a fixed precision of one decimal ('f', 1).
convertFloat32ToStringOneDecimal(f) ==
    LET n == Nearest(f, 1)
    IN  (IF f.neg THEN "-" ELSE "")
        \o IntStr(n \div 10) \o "." \o FracStr(n % 10, 1)

convertFloat32ToString(f) == FormatFloat(f)

---------------------------------------------------------------------------
(* Values *)

\* time.Hour, the expiry of every cache write, in clock ticks.
Hour == TicksPerHour

StatusOK == 200
StatusBadRequest == 400
StatusInternalServerError == 500

MissingLocation == "missing location query parameter"
ErrAPIConnect == "failed to connect to the Visual Crossing API"
ErrAPIResponse ==
    "something happened with the response from the Visual Crossing API"

\* The err of a Redis command: nil, redis.Nil (no such key), or a failure.
NoErr == "<nil>"
RedisNil == "redis: nil"
RedisErr == "redis: connection failed"

NoEntry == [val |-> "", ttl |-> 0]

\* What the provider can send back as a parsed document.
StationLists ==
    UNION {[1..n -> StationIds] : n \in 0..MaxStations}

APIResponses ==
    [Address : Keys, ResolvedAddress : Keys,
     CurrentConditions : [Temp : Temps, Stations : StationLists]]

\* The zero APIResponse and the nil *Weather.
NoAPIResponse ==
    [Address |-> "", ResolvedAddress |-> "",
     CurrentConditions |-> [Temp |-> F0, Stations |-> <<>>]]

NoWeather == [Locations |-> <<>>, Temp |-> F0]

\* The locals of weatherHandler (location, val, err, apiResponse, weather)
\* and the position i of Handle's loop over weather.Locations.
NoFrame == [location |-> "", val |-> "", err |-> NoErr,
            apiResponse |-> NoAPIResponse, weather |-> NoWeather, i |-> 0]

NoResponse == [status |-> 0, body |-> ""]

\* Calls made: cache gets, provider calls, cache sets, and the sets that
\* Redis answered with an error.
NoCalls == [get |-> 0, api |-> 0, set |-> 0, setErr |-> 0]

Range(s) == {s[j] : j \in 1..Len(s)}

---------------------------------------------------------------------------
(* Init *)

Init ==
    /\ store = [k \in Keys \cup StationIds |-> NoEntry]
    /\ pc = [r \in Reqs |-> "idle"]
    /\ frame = [r \in Reqs |-> NoFrame]
    /\ w = [r \in Reqs |-> NoResponse]
    /\ calls = [r \in Reqs |-> NoCalls]
    /\ upstream = [r \in Reqs |-> "none"]

---------------------------------------------------------------------------
(* weatherHandler *)

\* w.WriteHeader(status); w.Write(body); return.  Of the locals, f is what
\* stays readable of the finished request: the location asked, the err of
\* the get, val, and the *Weather that Handle returned.
Return(r, status, body, f) ==
    /\ w' = [w EXCEPT ![r] = [status |-> status, body |-> body]]
    /\ pc' = [pc EXCEPT ![r] = "done"]
    /\ frame' = [frame EXCEPT ![r] =
                    [f EXCEPT !.apiResponse = NoAPIResponse, !.i = 0]]

\* Lines 86-92: no location.
\* BadRequest answered as a server-side failure.
BadRequestAsServerError(r, loc) ==
    /\ pc[r] = "idle"
    /\ Len(loc) = 0
    /\ Return(r, StatusInternalServerError, MissingLocation,
              [NoFrame EXCEPT !.location = loc])
    /\ UNCHANGED <<store, calls, upstream>>

BadRequest(r, loc) ==
    /\ pc[r] = "idle"
    /\ Len(loc) = 0
    /\ Return(r, StatusBadRequest, MissingLocation,
              [NoFrame EXCEPT !.location = loc])
    /\ UNCHANGED <<store, calls, upstream>>

\* GetHit with the hit taken for a miss: the handler goes on to the provider.
GetHitRevalidates(r, loc) ==
    /\ pc[r] = "idle"
    /\ Len(loc) # 0
    /\ store[loc] # NoEntry
    /\ calls' = [calls EXCEPT ![r].get = @ + 1]
    /\ frame' = [frame EXCEPT ![r] =
                    [NoFrame EXCEPT !.location = loc, !.val = store[loc].val]]
    /\ pc' = [pc EXCEPT ![r] = "api"]
    /\ UNCHANGED <<store, w, upstream>>

\* GetHit with the entry's expiry pushed to a full hour again (a touch).
GetHitRefreshes(r, loc) ==
    /\ pc[r] = "idle"
    /\ Len(loc) # 0
    /\ store[loc] # NoEntry
    /\ calls' = [calls EXCEPT ![r].get = @ + 1]
    /\ store' = [store EXCEPT ![loc].ttl = Hour]
    /\ Return(r, StatusOK, store[loc].val,
              [NoFrame EXCEPT !.location = loc, !.val = store[loc].val])
    /\ UNCHANGED upstream

\* Lines 86-88, 94, 119-120: the get finds the key.
GetHit(r, loc) ==
    /\ pc[r] = "idle"
    /\ Len(loc) # 0
    /\ store[loc] # NoEntry
    /\ calls' = [calls EXCEPT ![r].get = @ + 1]
    /\ Return(r, StatusOK, store[loc].val,
              [NoFrame EXCEPT !.location = loc, !.val = store[loc].val])
    /\ UNCHANGED <<store, upstream>>

\* Lines 86-88, 94-95: the get finds nothing (redis.Nil).
\* GetMiss that does not go on to the provider while another request is
\* fetching the same location (single flight): it stays where it is.
GetMissSingleFlight(r, loc) ==
    /\ pc[r] = "idle"
    /\ Len(loc) # 0
    /\ store[loc] = NoEntry
    /\ calls' = [calls EXCEPT ![r].get = @ + 1]
    /\ frame' = [frame EXCEPT ![r] =
                    [NoFrame EXCEPT !.location = loc, !.err = RedisNil]]
    /\ pc' = [pc EXCEPT ![r] =
                IF \E q \in Reqs \ {r} :
                        pc[q] \in {"api", "set"} /\ frame[q].location = loc
                THEN "idle" ELSE "api"]
    /\ UNCHANGED <<store, w, upstream>>

GetMiss(r, loc) ==
    /\ pc[r] = "idle"
    /\ Len(loc) # 0
    /\ store[loc] = NoEntry
    /\ calls' = [calls EXCEPT ![r].get = @ + 1]
    /\ frame' = [frame EXCEPT ![r] =
                    [NoFrame EXCEPT !.location = loc, !.err = RedisNil]]
    /\ pc' = [pc EXCEPT ![r] = "api"]
    /\ UNCHANGED <<store, w, upstream>>

\* GetFail without the check of the location before it.
GetFailNoLocationCheck(r, loc) ==
    /\ pc[r] = "idle"
    /\ calls' = [calls EXCEPT ![r].get = @ + 1]
    /\ Return(r, StatusInternalServerError, RedisErr,
              [NoFrame EXCEPT !.location = loc, !.err = RedisErr])
    /\ UNCHANGED <<store, upstream>>

\* GetFail with every err of the get, not only redis.Nil, taken for a miss.
GetFailFallsThrough(r, loc) ==
    /\ pc[r] = "idle"
    /\ Len(loc) # 0
    /\ calls' = [calls EXCEPT ![r].get = @ + 1]
    /\ frame' = [frame EXCEPT ![r] =
                    [NoFrame EXCEPT !.location = loc, !.err = RedisErr]]
    /\ pc' = [pc EXCEPT ![r] = "api"]
    /\ UNCHANGED <<store, w, upstream>>

\* Lines 86-88, 94, 112-117: the get fails.
GetFail(r, loc) ==
    /\ pc[r] = "idle"
    /\ Len(loc) # 0
    /\ calls' = [calls EXCEPT ![r].get = @ + 1]
    /\ Return(r, StatusInternalServerError, RedisErr,
              [NoFrame EXCEPT !.location = loc, !.err = RedisErr])
    /\ UNCHANGED <<store, upstream>>

---------------------------------------------------------------------------
(* callWeatherAPI *)

\* callWeatherAPI with one error for every failure.
callWeatherAPIOneError(out) ==
    IF out = "ok" THEN NoErr ELSE ErrAPIResponse

\* Lines 59-80: the error callWeatherAPI returns for each outcome of the
\* exchange: http.Get fails ("connect"), io.ReadAll fails ("read"),
\* json.Unmarshal fails ("parse"), or a document is parsed ("ok").
callWeatherAPI(out) ==
    CASE out = "connect" -> ErrAPIConnect
      [] out = "read" -> ErrAPIResponse
      [] out = "parse" -> ErrAPIResponse
      [] OTHER -> NoErr

\* CallAPIFail without the return: the handler goes on with a document of
\* its own making.
CallAPIFailProceeds(r, out) ==
    /\ pc[r] = "api"
    /\ out # "ok"
    /\ calls' = [calls EXCEPT ![r].api = @ + 1]
    /\ upstream' = [upstream EXCEPT ![r] = out]
    /\ frame' = [frame EXCEPT
                    ![r].apiResponse =
                        [NoAPIResponse EXCEPT !.Address = frame[r].location,
                                              !.ResolvedAddress = frame[r].location],
                    ![r].weather = [Locations |-> <<frame[r].location,
                                                    frame[r].location>>,
                                    Temp |-> F0],
                    ![r].i = 1]
    /\ pc' = [pc EXCEPT ![r] = "set"]
    /\ UNCHANGED <<store, w>>

\* CallAPIFail with one retry: after the first failure the provider is called
\* again.
CallAPIFailRetries(r, out) ==
    /\ pc[r] = "api"
    /\ out # "ok"
    /\ calls' = [calls EXCEPT ![r].api = @ + 1]
    /\ upstream' = [upstream EXCEPT ![r] = out]
    /\ IF calls[r].api = 0
       THEN UNCHANGED <<pc, frame, w>>
       ELSE Return(r, StatusInternalServerError, callWeatherAPI(out), frame[r])
    /\ UNCHANGED store

\* Lines 96-102: the provider call fails.
CallAPIFail(r, out) ==
    /\ pc[r] = "api"
    /\ out # "ok"
    /\ calls' = [calls EXCEPT ![r].api = @ + 1]
    /\ upstream' = [upstream EXCEPT ![r] = out]
    /\ Return(r, StatusInternalServerError, callWeatherAPI(out), frame[r])
    /\ UNCHANGED store

---------------------------------------------------------------------------
(* APIResponse.Handle *)

\* The alias list with a resolved address equal to the address left out.
LocationsDeduplicated(r) ==
    IF r.ResolvedAddress = r.Address
    THEN <<r.Address>> \o r.CurrentConditions.Stations
    ELSE <<r.Address, r.ResolvedAddress>> \o r.CurrentConditions.Stations

\* Lines 34-41: the alias list.
Locations(r) ==
    <<r.Address, r.ResolvedAddress>> \o r.CurrentConditions.Stations

\* Lines 96, 103, 34-45: the provider answers; Handle builds weather.
CallAPIOk(r, resp) ==
    /\ pc[r] = "api"
    /\ calls' = [calls EXCEPT ![r].api = @ + 1]
    /\ upstream' = [upstream EXCEPT ![r] = "ok"]
    /\ frame' = [frame EXCEPT
                    ![r].apiResponse = resp,
                    ![r].weather = [Locations |-> Locations(resp),
                                    Temp |-> resp.CurrentConditions.Temp],
                    ![r].i = 1]
    /\ pc' = [pc EXCEPT ![r] = "set"]
    /\ UNCHANGED <<store, w>>

\* RedisSet that leaves a key that is already there as it is (SETNX).
RedisSetIfAbsent(key, value) ==
    IF store[key] # NoEntry THEN store
    ELSE [store EXCEPT ![key] = [val |-> value, ttl |-> Hour]]

\* redisClient.Set(key, value, time.Hour)
RedisSet(key, value) ==
    [store EXCEPT ![key] = [val |-> value, ttl |-> Hour]]

\* SetOk with the first write made under the location asked, not the address.
SetOkUnderQuery(r) ==
    LET f == frame[r]
        key == IF f.i = 1 THEN f.location ELSE f.weather.Locations[f.i]
        value == convertFloat32ToString(f.weather.Temp)
    IN  /\ pc[r] = "set"
        /\ store' = RedisSet(key, value)
        /\ calls' = [calls EXCEPT ![r].set = @ + 1]
        /\ IF f.i < Len(f.weather.Locations)
           THEN /\ frame' = [frame EXCEPT ![r].i = @ + 1]
                /\ UNCHANGED <<pc, w>>
           ELSE Return(r, StatusOK, value, [f EXCEPT !.val = value])
        /\ UNCHANGED upstream

\* Lines 47-52, and 53, 110, 119-120 after the last alias: one write succeeds.
\* SetOk that stores the value under the location asked as well.
SetOkAlsoUnderQuery(r) ==
    LET f == frame[r]
        key == f.weather.Locations[f.i]
        value == convertFloat32ToString(f.weather.Temp)
    IN  /\ pc[r] = "set"
        /\ store' = [RedisSet(key, value) EXCEPT
                        ![f.location] = [val |-> value, ttl |-> Hour]]
        /\ calls' = [calls EXCEPT ![r].set = @ + 1]
        /\ IF f.i < Len(f.weather.Locations)
           THEN /\ frame' = [frame EXCEPT ![r].i = @ + 1]
                /\ UNCHANGED <<pc, w>>
           ELSE Return(r, StatusOK, convertFloat32ToString(f.weather.Temp),
                       [f EXCEPT !.val = convertFloat32ToString(f.weather.Temp)])
        /\ UNCHANGED upstream

\* SetOk with the value returned read back from the cache under the location
\* asked.
SetOkReturnsReread(r) ==
    LET f == frame[r]
        key == f.weather.Locations[f.i]
        value == convertFloat32ToString(f.weather.Temp)
    IN  /\ pc[r] = "set"
        /\ store' = RedisSet(key, value)
        /\ calls' = [calls EXCEPT ![r].set = @ + 1]
        /\ IF f.i < Len(f.weather.Locations)
           THEN /\ frame' = [frame EXCEPT ![r].i = @ + 1]
                /\ UNCHANGED <<pc, w>>
           ELSE Return(r, StatusOK, store'[f.location].val,
                       [f EXCEPT !.val = store'[f.location].val])
        /\ UNCHANGED upstream

SetOk(r) ==
    LET f == frame[r]
        key == f.weather.Locations[f.i]
        value == convertFloat32ToString(f.weather.Temp)
    IN  /\ pc[r] = "set"
        /\ store' = RedisSet(key, value)
        /\ calls' = [calls EXCEPT ![r].set = @ + 1]
        /\ IF f.i < Len(f.weather.Locations)
           THEN /\ frame' = [frame EXCEPT ![r].i = @ + 1]
                /\ UNCHANGED <<pc, w>>
           ELSE Return(r, StatusOK, convertFloat32ToString(f.weather.Temp),
                       [f EXCEPT !.val = convertFloat32ToString(f.weather.Temp)])
        /\ UNCHANGED upstream

\* SetFail with the error dropped: the loop goes on to the next alias.
SetFailContinues(r) ==
    LET f == frame[r]
        value == convertFloat32ToString(f.weather.Temp)
    IN  /\ pc[r] = "set"
        /\ calls' = [calls EXCEPT ![r].set = @ + 1, ![r].setErr = @ + 1]
        /\ IF f.i < Len(f.weather.Locations)
           THEN /\ frame' = [frame EXCEPT ![r].i = @ + 1]
                /\ UNCHANGED <<pc, w>>
           ELSE Return(r, StatusOK, value, [f EXCEPT !.val = value])
        /\ UNCHANGED <<store, upstream>>

\* SetFail with a rollback: the aliases already written are deleted.
SetFailRollsBack(r) ==
    LET f == frame[r]
        written == {f.weather.Locations[j] : j \in 1..(f.i - 1)}
    IN  /\ pc[r] = "set"
        /\ calls' = [calls EXCEPT ![r].set = @ + 1, ![r].setErr = @ + 1]
        /\ store' = [k \in DOMAIN store |->
                        IF k \in written THEN NoEntry ELSE store[k]]
        /\ Return(r, StatusInternalServerError, RedisErr,
                  [f EXCEPT !.weather = NoWeather])
        /\ UNCHANGED upstream

\* Lines 48-51, 104-109: one write fails (Redis answers with an error and
\* the key is left as it was); Handle returns nil and the error.
SetFail(r) ==
    /\ pc[r] = "set"
    /\ calls' = [calls EXCEPT ![r].set = @ + 1, ![r].setErr = @ + 1]
    /\ Return(r, StatusInternalServerError, RedisErr,
              [frame[r] EXCEPT !.weather = NoWeather])
    /\ UNCHANGED <<store, upstream>>

---------------------------------------------------------------------------
(* Redis expiry and the server loop *)

\* A clock tick: every entry is one tick older; an entry whose time to live
\* has run out is gone.
\* Tick without expiry: an entry at the end of its time to live stays.
TickNoExpiry ==
    /\ store' = [k \in DOMAIN store |->
                    IF store[k].ttl > 1
                    THEN [store[k] EXCEPT !.ttl = @ - 1]
                    ELSE store[k]]
    /\ UNCHANGED <<pc, frame, w, calls, upstream>>

Tick ==
    /\ store' = [k \in DOMAIN store |->
                    IF store[k].ttl > 1
                    THEN [store[k] EXCEPT !.ttl = @ - 1]
                    ELSE NoEntry]
    /\ UNCHANGED <<pc, frame, w, calls, upstream>>

\* Lines 131-135: the handler has returned; the server takes the next
\* request.
Close(r) ==
    /\ pc[r] = "done"
    /\ pc' = [pc EXCEPT ![r] = "idle"]
    /\ frame' = [frame EXCEPT ![r] = NoFrame]
    /\ w' = [w EXCEPT ![r] = NoResponse]
    /\ calls' = [calls EXCEPT ![r] = NoCalls]
    /\ upstream' = [upstream EXCEPT ![r] = "none"]
    /\ UNCHANGED store

Next ==
    \/ \E r \in Reqs, loc \in Queries : BadRequest(r, loc)
    \/ \E r \in Reqs, loc \in Queries : GetHit(r, loc)
    \/ \E r \in Reqs, loc \in Queries : GetMiss(r, loc)
    \/ \E r \in Reqs, loc \in Queries : GetFail(r, loc)
    \/ \E r \in Reqs, out \in {"connect", "read", "parse"} : CallAPIFail(r, out)
    \/ \E r \in Reqs, resp \in APIResponses : CallAPIOk(r, resp)
    \/ \E r \in Reqs : SetOk(r)
    \/ \E r \in Reqs : SetFail(r)
    \/ \E r \in Reqs : Close(r)
    \/ Tick

Spec == Init /\ [][Next]_vars

---------------------------------------------------------------------------
(* Properties *)

\* The steps of request r, read off the calls it has made.
DidGet(r) == calls'[r].get = calls[r].get + 1
DidCallAPI(r) == calls'[r].api = calls[r].api + 1
DidSet(r) == calls'[r].set = calls[r].set + 1
SetFailed(r) == calls'[r].setErr = calls[r].setErr + 1
Returns(r) == pc[r] # "done" /\ pc'[r] = "done"

\* The alias set of a provider response.
AliasSet(resp) ==
    {resp.Address, resp.ResolvedAddress}
        \cup Range(resp.CurrentConditions.Stations)

ProviderFailures == {"connect", "read", "parse"}

Response(status, body) == [status |-> status, body |-> body]

\* C1: a get that finds the key of a non-empty location ends the lookup at
\* once with StatusOK and exactly the stored string, the provider not called;
\* a request that has returned makes no further call.
C1_CacheHitShortCircuits ==
    [][\A r \in Reqs :
        /\ (DidGet(r) /\ frame'[r].err # RedisErr
                /\ store[frame'[r].location] # NoEntry)
            => /\ Returns(r)
               /\ w'[r] = Response(StatusOK, store[frame'[r].location].val)
               /\ calls'[r].api = 0
        /\ (pc[r] = "done" /\ pc'[r] = "done") => calls'[r] = calls[r]
      ]_vars

C1_Witness ==
    \E r \in Reqs :
        /\ pc[r] = "done"
        /\ calls[r] = [NoCalls EXCEPT !.get = 1]
        /\ frame[r].err = NoErr
        /\ store[frame[r].location] # NoEntry
        /\ w[r] = Response(StatusOK, store[frame[r].location].val)

\* C2: when a lookup that missed completes its last write, every key of its
\* response's alias set holds the formatted temperature of that response.
\* (Read in the claim's favour: a key whose entry has expired meanwhile is
\* not counted against it; a key holding another string is.)
C2_MissPopulatesAllAliases ==
    [][\A r \in Reqs :
        (pc[r] = "set" /\ Returns(r) /\ w'[r].status = StatusOK)
            => \A k \in AliasSet(frame[r].apiResponse) :
                \/ store'[k] = NoEntry
                \/ store'[k].val = convertFloat32ToString(
                        frame[r].apiResponse.CurrentConditions.Temp)
      ]_vars

\* C3: a request with no location makes no call on the cache or the
\* provider and ends with StatusBadRequest.
C3_EmptyLocationRejected ==
    \A r \in Reqs :
        /\ frame[r].location = "" => calls[r] = NoCalls
        /\ (pc[r] = "done" /\ frame[r].location = "")
            => w[r] = Response(StatusBadRequest, MissingLocation)

C3_Witness ==
    \E r \in Reqs :
        /\ pc[r] = "done"
        /\ frame[r].location = ""
        /\ w[r].status = StatusBadRequest
        /\ \E k \in DOMAIN store : store[k] # NoEntry

\* C4: a get that fails with an error other than redis.Nil ends the lookup
\* with the error (StatusInternalServerError), no provider call and no
\* cache write; the provider is called only after redis.Nil.
C4_StoreReadErrorStops ==
    \A r \in Reqs :
        /\ frame[r].err = RedisErr
            => /\ pc[r] = "done"
               /\ w[r] = Response(StatusInternalServerError, RedisErr)
               /\ calls[r] = [NoCalls EXCEPT !.get = 1]
        /\ (calls[r].api > 0 \/ pc[r] \in {"api", "set"})
            => frame[r].err = RedisNil

C4_Witness ==
    \E r, o \in Reqs :
        /\ pc[r] = "done"
        /\ frame[r].err = RedisErr
        /\ w[r].status = StatusInternalServerError
        /\ pc[o] = "api"

\* C5: after a miss, a connection failure of the provider call ends the
\* lookup with ErrAPIConnect and an unreadable or unparseable payload with
\* ErrAPIResponse; the two errors differ and neither is reported for the
\* other cause.
C5_ProviderFailureDistinct ==
    /\ ErrAPIConnect # ErrAPIResponse
    /\ \A r \in Reqs :
        /\ upstream[r] \in ProviderFailures
            => pc[r] = "done" /\ frame[r].err = RedisNil
        /\ upstream[r] = "connect"
            => w[r] = Response(StatusInternalServerError, ErrAPIConnect)
        /\ upstream[r] \in {"read", "parse"}
            => w[r] = Response(StatusInternalServerError, ErrAPIResponse)
        /\ w[r].body = ErrAPIConnect => upstream[r] = "connect"
        /\ w[r].body = ErrAPIResponse => upstream[r] \in {"read", "parse"}

C5_Witness ==
    \E r, o \in Reqs :
        /\ upstream[r] = "connect" /\ w[r].body = ErrAPIConnect
        /\ upstream[o] = "parse" /\ w[o].body = ErrAPIResponse

\* C6: a lookup whose provider call fails has made no cache write: its get
\* and its provider call leave the store as it was, and it returns without
\* a set.
C6_ProviderFailureLeavesCache ==
    [][\A r \in Reqs :
        /\ DidGet(r) => store' = store
        /\ DidCallAPI(r) => store' = store
        /\ (DidCallAPI(r) /\ upstream'[r] \in ProviderFailures) => Returns(r)
        /\ upstream'[r] \in ProviderFailures => calls'[r].set = 0
      ]_vars

C6_Witness ==
    \E r \in Reqs :
        /\ pc[r] = "done"
        /\ upstream[r] \in ProviderFailures
        /\ calls[r].set = 0
        /\ \E k \in DOMAIN store : store[k] # NoEntry

\* C7: when the k-th write of a lookup fails, the store stays as the earlier
\* writes left it (no rollback), the lookup returns at once with the error
\* (StatusInternalServerError, no temperature), having made exactly k set
\* attempts, and makes no call after that.
C7_FanOutAbortsOnFirstFailure ==
    [][\A r \in Reqs :
        /\ SetFailed(r)
            => /\ store' = store
               /\ Returns(r)
               /\ w'[r] = Response(StatusInternalServerError, RedisErr)
               /\ calls'[r].set = frame[r].i
               /\ calls'[r].setErr = 1
        /\ (DidSet(r) /\ ~SetFailed(r))
            => store'[frame[r].weather.Locations[frame[r].i]] # NoEntry
        /\ (pc[r] = "done" /\ pc'[r] = "done") => calls'[r] = calls[r]
      ]_vars

C7_Witness ==
    \E r \in Reqs :
        /\ pc[r] = "done"
        /\ calls[r].setErr = 1
        /\ calls[r].set = 3
        /\ w[r] = Response(StatusInternalServerError, RedisErr)
        /\ \E k \in DOMAIN store : store[k].ttl = Hour

\* C8: a write of a lookup changes no key outside the alias set of the
\* lookup's own provider response.
C8_NoCrossLocationContamination ==
    [][\A r \in Reqs :
        DidSet(r)
            => \A k \in DOMAIN store \ AliasSet(frame[r].apiResponse) :
                store'[k] = store[k]
      ]_vars

C8_Witness ==
    \E r \in Reqs :
        /\ pc[r] = "set"
        /\ calls[r].set >= 1
        /\ frame[r].location \notin AliasSet(frame[r].apiResponse)
        /\ \E k \in DOMAIN store \ AliasSet(frame[r].apiResponse) :
            store[k] # NoEntry

\* C9: once a lookup that missed has written its response, every member of
\* the response's alias set that is in the cache yields the temperature
\* stored for that response, whatever other lookups have run since.
C9_AliasConsistency ==
    \A r \in Reqs :
        (pc[r] = "done" /\ w[r].status = StatusOK /\ calls[r].api = 1)
            => \A k \in Range(frame[r].weather.Locations) :
                \/ store[k] = NoEntry
                \/ store[k].val = convertFloat32ToString(frame[r].weather.Temp)

\* C10: an entry is written only by a set of a lookup that missed, under an
\* alias of its response, with the formatted temperature and the full hour;
\* otherwise an entry only ages, and it leaves the store only when its time
\* to live has run out.
C10_EntryLifecycle ==
    [][\A k \in DOMAIN store :
        store'[k] # store[k]
            => \/ \E r \in Reqs :
                    /\ pc[r] = "set"
                    /\ frame[r].err = RedisNil
                    /\ calls[r].api = 1
                    /\ DidSet(r) /\ ~SetFailed(r)
                    /\ k \in AliasSet(frame[r].apiResponse)
                    /\ store'[k] =
                        [val |-> convertFloat32ToString(
                                    frame[r].apiResponse.CurrentConditions.Temp),
                         ttl |-> Hour]
               \/ /\ pc' = pc /\ calls' = calls
                  /\ store[k].ttl >= 1
                  /\ store'[k] = IF store[k].ttl = 1 THEN NoEntry
                                 ELSE [store[k] EXCEPT !.ttl = @ - 1]
      ]_vars

C10_Witness ==
    \E r, o \in Reqs :
        /\ pc[r] = "done" /\ w[r].status = StatusBadRequest
        /\ pc[o] = "done" /\ w[o].status = StatusInternalServerError
        /\ \E k \in DOMAIN store : store[k].ttl = 1

---------------------------------------------------------------------------
(* Formatting: one lookup at a time, over a wider range of temperatures *)

\* Largest numerator and binary exponent of the temperatures m / 2^s tried.
MaxMant == 20
MaxShift == 2

\* -3.25, 100 and -0.1 (the float32 nearest to it) as float32.
FNeg3_25 == [neg |-> TRUE, mant |-> 13, shift |-> 2]
F100 == [neg |-> FALSE, mant |-> 100, shift |-> 0]
FNeg0_1 == [neg |-> TRUE, mant |-> 13421773, shift |-> 27]

RepresentativeTemps == {F0, FNeg3_25, F100, F7_5, FNeg0_1}

\* Every m / 2^s in lowest terms, of both signs, with the representatives.
FormatTemps ==
    {f \in [neg : BOOLEAN, mant : 0..MaxMant, shift : 0..MaxShift] :
        f.shift = 0 \/ (f.mant % 2 = 1)}
    \cup RepresentativeTemps \cup Temps

FormatResponses ==
    {resp \in [Address : {"A"}, ResolvedAddress : {"A"},
               CurrentConditions : [Temp : FormatTemps, Stations : {<<>>}]] :
        TRUE}

NextFormat ==
    \/ GetMiss("r1", "A")
    \/ \E resp \in FormatResponses : CallAPIOk("r1", resp)
    \/ SetOk("r1")
    \/ GetHit("r1", "A")
    \/ Close("r1")
    \/ Tick

SpecFormat == Init /\ [][NextFormat]_vars

\* Reading a decimal string back (strconv.ParseFloat(s, 32)): the digits n,
\* the number k of decimals and the sign, then the float32 nearest to
\* n / 10^k, ties to the even significand.
DigitVal(c) == CHOOSE d \in 0..9 : DigitChar[d + 1] = c

DecimalChars == {DigitChar[d] : d \in 1..10} \cup {"-", "."}

RECURSIVE ParseDigits(_, _, _, _)
ParseDigits(s, n, k, dot) ==
    IF Len(s) = 0 THEN [n |-> n, k |-> k]
    ELSE IF Head(s) = "." THEN ParseDigits(Tail(s), n, k, TRUE)
    ELSE ParseDigits(Tail(s), 10 * n + DigitVal(Head(s)),
                     IF dot THEN k + 1 ELSE k, dot)

\* floor(log2(n / 10^k)) for n > 0.
RECURSIVE NegLog2(_, _, _)
NegLog2(n, d, j) == IF n * Pow(2, j) >= d THEN 0 - j ELSE NegLog2(n, d, j + 1)

Log2(n, k) ==
    IF n >= Pow(10, k) THEN BitLen(n \div Pow(10, k)) - 1
    ELSE NegLog2(n, Pow(10, k), 1)

RECURSIVE Reduce(_)
Reduce(f) ==
    IF f.shift > 0 /\ f.mant % 2 = 0
    THEN Reduce([f EXCEPT !.mant = @ \div 2, !.shift = @ - 1])
    ELSE f

ParseFloat32(s) ==
    LET neg == Len(s) > 0 /\ Head(s) = "-"
        d == ParseDigits(IF neg THEN Tail(s) ELSE s, 0, 0, FALSE)
        e == Log2(d.n, d.k)
        p == (Float32MantBits - 1) - e - d.k
        num == IF p >= 0 THEN d.n * Pow(2, p) ELSE d.n
        den == IF p >= 0 THEN Pow(5, d.k) ELSE Pow(5, d.k) * Pow(2, 0 - p)
        q == num \div den
        rem == num % den
        m == IF 2 * rem > den \/ (2 * rem = den /\ q % 2 = 1)
             THEN q + 1 ELSE q
    IN  IF d.n = 0 THEN [neg |-> neg, mant |-> 0, shift |-> 0]
        ELSE Reduce([neg |-> neg, mant |-> m,
                     shift |-> (Float32MantBits - 1) - e])

RECURSIVE OnlyDecimalChars(_)
OnlyDecimalChars(s) ==
    Len(s) = 0 \/ (Head(s) \in DecimalChars /\ OnlyDecimalChars(Tail(s)))

\* C11: the string the handler sends for a temperature from the provider is
\* a plain decimal (digits, sign, point) that reads back as the same float32,
\* for the representatives 0, -3.25, 100, 7.5, -0.1 and every other
\* temperature tried; 7.5 is sent as "7.5" and 12 as "12".
C11_FormatRoundTrips ==
    \A r \in Reqs :
        (pc[r] = "done" /\ calls[r].api = 1 /\ w[r].status = StatusOK)
            => /\ OnlyDecimalChars(w[r].body)
               /\ ParseFloat32(w[r].body) = frame[r].weather.Temp
               /\ frame[r].weather.Temp = F7_5 => w[r].body = "7.5"
               /\ frame[r].weather.Temp = F12 => w[r].body = "12"
               /\ store["A"] # NoEntry
                    => ParseFloat32(store["A"].val) = frame[r].weather.Temp

C11_Witness ==
    /\ pc["r1"] = "done"
    /\ calls["r1"].api = 1
    /\ frame["r1"].weather.Temp = FNeg0_1
    /\ w["r1"] = Response(StatusOK, "-0.1")

---------------------------------------------------------------------------
(* Properties of the write phase *)

\* The aliases a request in its write phase has already been through.
WrittenBefore(r) ==
    {frame[r].weather.Locations[j] : j \in 1..(frame[r].i - 1)}

\* The key of the write a request in its write phase is about to make.
NextKey(r) == frame[r].weather.Locations[frame[r].i]

Entry(f) == [val |-> convertFloat32ToString(f), ttl |-> Hour]

\* C12: a write to a key the same lookup has already written (address equal
\* to resolvedAddress, or a station equal to either) goes through like any
\* other (the loop goes on, or the lookup ends with StatusOK) and leaves the
\* store as one write of the formatted temperature under that key does: that
\* entry with the full hour, and every other key as it was.
C12_IdempotentAliasOverlap ==
    [][\A r \in Reqs :
        (pc[r] = "set" /\ NextKey(r) \in WrittenBefore(r)
                /\ DidSet(r) /\ ~SetFailed(r))
            => /\ pc'[r] \in {"set", "done"}
               /\ pc'[r] = "done" => w'[r].status = StatusOK
               /\ store' = [store EXCEPT ![NextKey(r)] =
                                Entry(frame[r].weather.Temp)]
               /\ store[NextKey(r)] = Entry(frame[r].weather.Temp)
                    => store' = store
      ]_vars

C12_Witness ==
    \E r \in Reqs :
        /\ pc[r] = "done"
        /\ w[r].status = StatusOK
        /\ frame[r].weather.Locations = <<"B", "B", "B">>
        /\ calls[r] = [get |-> 1, api |-> 1, set |-> 3, setErr |-> 0]
        /\ store["B"] = Entry(frame[r].weather.Temp)

\* The get of request r finds the key it asks for.
Hits(r) ==
    /\ DidGet(r)
    /\ frame'[r].err = NoErr
    /\ store[frame'[r].location] # NoEntry

\* C13: a lookup served from the cache makes no cache write: the step of the
\* hit leaves every entry's value and remaining time to live as they were,
\* and the lookup has made no set when it returns.
C13_HitLeavesStoreUnchanged ==
    [][\A r \in Reqs :
        Hits(r)
            => /\ store' = store
               /\ store'[frame'[r].location].ttl = store[frame'[r].location].ttl
               /\ Returns(r)
               /\ calls'[r] = [NoCalls EXCEPT !.get = 1]
      ]_vars

C13_Witness ==
    \E r \in Reqs :
        /\ pc[r] = "done"
        /\ frame[r].err = NoErr
        /\ calls[r] = [NoCalls EXCEPT !.get = 1]
        /\ w[r].status = StatusOK
        /\ Hour > 1
        /\ store[frame[r].location].ttl = 1
        /\ w[r].body = store[frame[r].location].val

\* C14: a lookup that missed and succeeds returns the formatting of the
\* temperature of the response its own provider call gave it, whatever the
\* cache holds under the location asked when it returns.
C14_MissReturnsOwnTemperature ==
    [][\A r \in Reqs :
        (Returns(r) /\ calls'[r].api = 1 /\ w'[r].status = StatusOK)
            => /\ frame[r].apiResponse \in APIResponses
               /\ w'[r].body =
                    convertFloat32ToString(frame[r].apiResponse.CurrentConditions.Temp)
               /\ frame'[r].val = w'[r].body
               /\ frame'[r].weather.Temp = frame[r].apiResponse.CurrentConditions.Temp
      ]_vars

\* A lookup of a location that is among its aliases has returned its own
\* temperature while the entry under that location holds another lookup's.
C14_Witness ==
    \E r \in Reqs :
        /\ pc[r] = "done"
        /\ calls[r].api = 1
        /\ w[r].status = StatusOK
        /\ w[r].body = convertFloat32ToString(frame[r].weather.Temp)
        /\ frame[r].location \in Range(frame[r].weather.Locations)
        /\ store[frame[r].location] # NoEntry
        /\ store[frame[r].location].val # w[r].body

\* C15 as stated: a lookup whose provider response reports an address other
\* than the location asked never writes an entry under the location asked.
C15_QueryKeyGapByAddress ==
    [][\A r \in Reqs :
        (DidSet(r) /\ ~SetFailed(r)
                /\ frame[r].apiResponse.Address # frame[r].location)
            => store'[frame[r].location] = store[frame[r].location]
      ]_vars

\* C15, amended: a lookup whose location is none of the aliases of its
\* provider response (not the address, not the resolved address, not a
\* station) writes no entry under the location asked; and a get of a location
\* that has no entry misses, so the lookup goes on to the provider.
C15_QueryKeyGap ==
    [][\A r \in Reqs :
        /\ (DidSet(r) /\ ~SetFailed(r)
                /\ frame[r].location \notin AliasSet(frame[r].apiResponse))
            => /\ store'[frame[r].location] = store[frame[r].location]
               /\ store'[NextKey(r)] = Entry(frame[r].weather.Temp)
        /\ (DidGet(r) /\ frame'[r].err # RedisErr
                /\ store[frame'[r].location] = NoEntry)
            => /\ pc'[r] = "api"
               /\ frame'[r].err = RedisNil
      ]_vars

\* A lookup has succeeded and its data is cached under the provider's
\* address, nothing is cached under the location it asked, and an identical
\* query has missed and is about to call the provider.
C15_Witness ==
    \E r, q \in Reqs :
        /\ r # q
        /\ pc[r] = "done"
        /\ w[r].status = StatusOK
        /\ calls[r].api = 1
        /\ frame[r].location \notin Range(frame[r].weather.Locations)
        /\ store[frame[r].location] = NoEntry
        /\ store[frame[r].weather.Locations[1]] = Entry(frame[r].weather.Temp)
        /\ pc[q] = "api"
        /\ frame[q].location = frame[r].location
        /\ frame[q].err = RedisNil

\* Request r has made every write of its alias set without an error.
WroteAll(r) ==
    /\ pc[r] = "done"
    /\ w[r].status = StatusOK
    /\ calls[r] = [get |-> 1, api |-> 1,
                   set |-> Len(frame[r].weather.Locations), setErr |-> 0]

\* Another request is between its miss and its last write for location loc.
InFlight(r, loc) ==
    \E q \in Reqs \ {r} : pc[q] \in {"api", "set"} /\ frame[q].location = loc

\* C16: lookups are not coordinated.  A get that finds no entry goes on to
\* the provider although another lookup of that location is in flight; the
\* provider's answer is taken and the writes begin although another lookup is
\* in flight; and a write to a key that holds another lookup's value replaces
\* it and is no error.
C16_NoSingleFlight ==
    [][\A r \in Reqs :
        /\ (DidGet(r) /\ frame'[r].err # RedisErr
                /\ store[frame'[r].location] = NoEntry
                /\ InFlight(r, frame'[r].location))
            => pc'[r] = "api"
        /\ (DidCallAPI(r) /\ upstream'[r] = "ok"
                /\ InFlight(r, frame[r].location))
            => pc'[r] = "set" /\ frame'[r].i = 1
        /\ (DidSet(r) /\ ~SetFailed(r)
                /\ store[NextKey(r)] # NoEntry
                /\ store[NextKey(r)].val # convertFloat32ToString(frame[r].weather.Temp))
            => /\ store'[NextKey(r)] = Entry(frame[r].weather.Temp)
               /\ pc'[r] \in {"set", "done"}
               /\ pc'[r] = "done" => w'[r].status = StatusOK
      ]_vars

\* Two lookups of the same location both missed, both called the provider
\* and both made all their writes; the entry under the alias they share is
\* the one of the lookup that wrote last.
C16_Witness ==
    \E r, q \in Reqs :
        /\ r # q
        /\ WroteAll(r) /\ WroteAll(q)
        /\ frame[r].location = frame[q].location
        /\ frame[r].err = RedisNil /\ frame[q].err = RedisNil
        /\ frame[r].weather.Locations = frame[q].weather.Locations
        /\ frame[r].weather.Temp # frame[q].weather.Temp
        /\ \A k \in Range(frame[q].weather.Locations) :
                store[k] = Entry(frame[q].weather.Temp)

\* A step of request r in which a get, a provider call or a set fails.
Fails(r) ==
    \/ DidGet(r) /\ frame'[r].err = RedisErr
    \/ DidCallAPI(r) /\ upstream'[r] \in ProviderFailures
    \/ SetFailed(r)

\* C17: a lookup makes its get once, its provider call once and one set
\* attempt for each position of its alias list, in this order; the step in
\* which one of them fails is the step in which the lookup returns the error,
\* and a lookup that has returned makes no further call.
C17_NoRetries ==
    [][\A r \in Reqs :
        /\ DidGet(r) => calls[r] = NoCalls
        /\ DidCallAPI(r) => calls[r] = [NoCalls EXCEPT !.get = 1]
        /\ DidSet(r)
            => /\ calls[r].get = 1 /\ calls[r].api = 1 /\ calls[r].setErr = 0
               /\ calls[r].set = frame[r].i - 1
               /\ frame[r].i \in 1..Len(frame[r].weather.Locations)
               /\ pc'[r] = "set" => frame'[r].i = frame[r].i + 1
        /\ Fails(r)
            => /\ Returns(r)
               /\ w'[r].status = StatusInternalServerError
        /\ pc[r] = "done" => calls'[r] \in {calls[r], NoCalls}
        /\ calls'[r].get <= 1 /\ calls'[r].api <= 1 /\ calls'[r].setErr <= 1
        /\ calls'[r].set <= 2 + MaxStations
      ]_vars

\* A lookup has failed at the set of its second alias and returned, having
\* attempted the first two positions once each and no other.
C17_Witness ==
    \E r \in Reqs :
        /\ pc[r] = "done"
        /\ w[r] = Response(StatusInternalServerError, RedisErr)
        /\ calls[r] = [get |-> 1, api |-> 1, set |-> 2, setErr |-> 1]

\* seq is the address, the resolved address and then the stations of resp,
\* position by position.
IsAliasSequence(seq, resp) ==
    LET stations == resp.CurrentConditions.Stations
    IN  /\ Len(seq) = 2 + Len(stations)
        /\ seq[1] = resp.Address
        /\ seq[2] = resp.ResolvedAddress
        /\ \A j \in 1..Len(stations) : seq[2 + j] = stations[j]

Age(k) == Hour - store[k].ttl

\* Request r writes key k in this step.
Writes(r, k) == DidSet(r) /\ ~SetFailed(r) /\ NextKey(r) = k

\* C19: every write gives its key a full hour, whatever the key had left; in
\* a step without a write to it a key's time to live never grows, and the
\* clock takes one tick from every key by itself and removes the key whose
\* hour is over; so the entry a hit returns is less than an hour old.
C19_BoundedStaleness ==
    [][/\ \A k \in DOMAIN store :
            /\ (\E r \in Reqs : Writes(r, k))
                => store'[k].ttl = Hour
            /\ ~(\E r \in Reqs : Writes(r, k))
                => /\ store'[k].ttl <= store[k].ttl
                   /\ store'[k].ttl < store[k].ttl
                        => /\ store'[k].ttl = store[k].ttl - 1
                           /\ store'[k] = NoEntry <=> store[k].ttl = 1
                           /\ store'[k] # NoEntry => store'[k].val = store[k].val
                           /\ \A j \in DOMAIN store :
                                store'[j].ttl = IF store[j].ttl = 0 THEN 0
                                                ELSE store[j].ttl - 1
            /\ store'[k].ttl \in 0..Hour
            /\ store'[k].ttl = 0 <=> store'[k] = NoEntry
       /\ \A r \in Reqs :
            Hits(r)
                => /\ w'[r].body = store[frame'[r].location].val
                   /\ Age(frame'[r].location) \in 0..(Hour - 1)
      ]_vars

\* A hit has returned an entry in the last tick of its hour while another
\* alias with the same value, written later, still has its full hour.
C19_Witness ==
    \E r \in Reqs : \E k \in DOMAIN store :
        /\ pc[r] = "done"
        /\ w[r].status = StatusOK
        /\ calls[r] = [NoCalls EXCEPT !.get = 1]
        /\ k # frame[r].location
        /\ Age(frame[r].location) = Hour - 1
        /\ Age(k) = 0
        /\ store[k].val = store[frame[r].location].val
        /\ w[r].body = store[k].val

\* The text of the error of the step in which request r fails.
ErrorText(r) ==
    IF DidCallAPI(r) THEN callWeatherAPI(upstream'[r]) ELSE RedisErr

\* C20: a response is written once, in the step in which the request
\* returns.  It is 200 exactly for a hit or a miss whose provider call and
\* writes all succeeded, and then the body is a temperature string; it is 400
\* exactly for an empty location; and a failed get, a failed provider call
\* and a failed set all give 500 with the text of the error as the body.
C20_OutcomeMapping ==
    [][\A r \in Reqs :
        /\ w'[r] # w[r]
            => \/ Returns(r) /\ w[r] = NoResponse
               \/ pc[r] = "done" /\ pc'[r] = "idle" /\ w'[r] = NoResponse
        /\ Returns(r)
            => /\ w'[r].status \in
                    {StatusOK, StatusBadRequest, StatusInternalServerError}
               /\ w'[r].status = StatusBadRequest
                    <=> Len(frame'[r].location) = 0
               /\ w'[r].status = StatusBadRequest
                    => w'[r].body = MissingLocation /\ calls'[r] = NoCalls
               /\ w'[r].status = StatusInternalServerError <=> Fails(r)
               /\ Fails(r) => w'[r].body = ErrorText(r)
               /\ w'[r].status = StatusOK
                    <=> \/ Hits(r)
                        \/ /\ DidSet(r) /\ ~SetFailed(r)
                           /\ calls'[r] =
                                [get |-> 1, api |-> 1,
                                 set |-> Len(frame[r].weather.Locations),
                                 setErr |-> 0]
               /\ w'[r].status = StatusOK
                    => /\ Len(w'[r].body) > 0
                       /\ OnlyDecimalChars(w'[r].body)
                       /\ w'[r].body = frame'[r].val
        /\ pc'[r] # "done" => w'[r] = NoResponse
      ]_vars

\* One request has failed at the cache and the other at the provider: both
\* have the same status, and bodies that are the texts of their errors.
C20_Witness ==
    \E r, q \in Reqs :
        /\ pc[r] = "done" /\ pc[q] = "done"
        /\ frame[r].err = RedisErr
        /\ w[r] = Response(StatusInternalServerError, RedisErr)
        /\ upstream[q] = "connect"
        /\ w[q] = Response(StatusInternalServerError, ErrAPIConnect)

=============================================================================
